---- MODULE Spec2Model ----
(***************************************************************************)
(* SudokuSolver (src/sudoku_solver.py): constraint propagation and         *)
(* depth-first search over a 9x9 Sudoku candidate grid.                    *)
(*                                                                         *)
(* A square is named by its position 1..81 in self.squares: the square of  *)
(* row letter number r and column digit number c is (r-1)*9+c, so that the *)
(* order of the numbers is the order of the two-character names 'A1'..'I9' *)
(* and the iteration order of every OrderedDict keyed by the squares.      *)
(* A candidate string values[s] is the set of its characters: the code     *)
(* only ever builds such a string from '123456789' by deleting characters  *)
(* or by storing one digit, so its characters are always in digit order.   *)
(***************************************************************************)
EXTENDS Integers, Sequences, FiniteSets, TLC

VARIABLES
    grid,             \* the text given to solve()
    use_naked_twins,  \* self._use_naked_twins
    replaceCached,    \* the interpreter: does str.replace hand out the cached
                      \* one-character string object (so that `is` sees it)?
    units,            \* self.units
    peers,            \* self.peers
    pc,               \* the statement the interpreter is at
    heap,             \* the dict objects alive, by reference
    values,           \* the reference the running call holds as `values`
    clue,             \* parse_grid: index of the item of grid_values() at hand
    ocstack,          \* only_choice frames suspended in a nested assign
    ocpos,            \* scan position of the running only_choice
    frames,           \* search frames, outermost first
    result,           \* what solve() returned
    op,               \* the operation that ran last
    round,            \* 1 for the caller's grid, 2 for a returned grid fed back
    first             \* what solve() returned in round 1

vars == <<grid, use_naked_twins, replaceCached, units, peers, pc, heap, values, clue,
          ocstack, ocpos, frames, result, op, round, first>>

----------------------------------------------------------------------------
(* Board topology: __init__                                                *)

N == 9

digits == <<"1", "2", "3", "4", "5", "6", "7", "8", "9">>

rows == [i \in 1..N |-> i]

cols == [i \in 1..N |-> i]

Range(f) == {f[i] : i \in DOMAIN f}

\* the list below with its loops exchanged: [a + b for b in B for a in A]
cross_b_first(A, B) ==
    [k \in 1..(Len(A) * Len(B)) |->
        (A[((k - 1) % Len(A)) + 1] - 1) * N + B[((k - 1) \div Len(A)) + 1]]

\* [a + b for a in A for b in B]
cross(A, B) ==
    [k \in 1..(Len(A) * Len(B)) |->
        (A[((k - 1) \div Len(B)) + 1] - 1) * N + B[((k - 1) % Len(B)) + 1]]

squares == cross(rows, cols)

\* the bands of the boxes with one letter mistyped: 'ABC', 'DEF', 'FHI'
BandsTypo == <<<<1, 2, 3>>, <<4, 5, 6>>, <<6, 8, 9>>>>

\* ('ABC', 'DEF', 'GHI') and ('123', '456', '789')
Bands == <<<<1, 2, 3>>, <<4, 5, 6>>, <<7, 8, 9>>>>

unitlist ==
    [c \in 1..N |-> cross(rows, <<cols[c]>>)] \o
    [r \in 1..N |-> cross(<<rows[r]>>, cols)] \o
    [k \in 1..N |-> cross(Bands[((k - 1) \div 3) + 1], Bands[((k - 1) % 3) + 1])]

InUnit(s, u) == \E i \in DOMAIN u : u[i] = s

InitUnits ==
    [s \in Range(squares) |-> SelectSeq(unitlist, LAMBDA u : InUnit(s, u))]

InitPeers ==
    [s \in Range(squares) |->
        UNION {Range(InitUnits[s][i]) : i \in DOMAIN InitUnits[s]} \ {s}]

----------------------------------------------------------------------------
(* Candidate grids.  A dict is [ok, val, rep]: val[s] is the string        *)
(* values[s]; rep is the set of squares whose string object was made by    *)
(* str.replace (any other string object of one character is the cached    *)
(* one that iterating over a string yields).  The propagation functions   *)
(* change the dict in place and return it or False: ok = FALSE marks a     *)
(* dict whose last call returned False, val being what the call left.      *)

Digits == Range(digits)

False(D) == [D EXCEPT !.ok = FALSE]

Dict(val, rep) == [ok |-> TRUE, val |-> val, rep |-> rep]

len(str) == Cardinality(str)

\* val with the characters ds deleted from the strings of the squares ps
RECURSIVE Delete(_, _, _)
Delete(val, ps, ds) ==
    IF ps = {} THEN val
    ELSE LET p == CHOOSE x \in ps : TRUE
         IN  Delete([val EXCEPT ![p] = @ \ ds], ps \ {p}, ds)

\* values[p] = values[p].replace(d, '') for every d of ds and every p of ps;
\* replace makes a new string object when it deletes something
Replace(D, ps, ds) ==
    LET hit == {p \in ps : D.val[p] \cap ds # {}}
    IN  Dict(Delete(D.val, hit, ds), D.rep \cup hit)

\* values[s] = d
Store(D, s, d) == Dict([D.val EXCEPT ![s] = {d}], D.rep \ {s})

\* values[s] is not digit
IsNot(D, s, d) == D.val[s] # {d} \/ (s \in D.rep /\ ~replaceCached)

\* The loops below run their iterations lo..hi in order, up to the one that
\* returns False; the range is halved only to keep the evaluation shallow.

\* the body below without its first branch, `if len(values[square]) == 0`
eliminate_square_unchecked(D, i) ==
    LET square == squares[i]
    IN  IF len(D.val[square]) = 1
        THEN Replace(D, peers[square], D.val[square])
        ELSE D

\* the body of the loop of eliminate for the i-th square
eliminate_square(D, i) ==
    LET square == squares[i]
    IN  IF len(D.val[square]) = 0 THEN False(D)
        ELSE IF len(D.val[square]) = 1
             THEN Replace(D, peers[square], D.val[square])
             ELSE D

RECURSIVE eliminate_range(_, _, _)
eliminate_range(D, lo, hi) ==
    IF ~D.ok THEN D
    ELSE IF lo = hi THEN eliminate_square(D, lo)
    ELSE eliminate_range(eliminate_range(D, lo, (lo + hi) \div 2),
                         ((lo + hi) \div 2) + 1, hi)

eliminate(D) == eliminate_range(D, 1, Len(squares))

\* the body below without `and p != peer`: the twin loses the pair too
twins_pair_peer_too(D, square, k) ==
    LET unit == units[square][((k - 1) \div N) + 1]
        peer == unit[((k - 1) % N) + 1]
        rest == Range(unit) \ {square}
        E    == Replace(D, rest, D.val[square])
    IN  IF peer # square /\ D.val[peer] = D.val[square]
        THEN IF \E p \in rest : len(E.val[p]) = 0 THEN False(E) ELSE E
        ELSE D

\* the body below taking any peer of two candidates for a twin
twins_pair_any_two(D, square, k) ==
    LET unit == units[square][((k - 1) \div N) + 1]
        peer == unit[((k - 1) % N) + 1]
        rest == Range(unit) \ {square, peer}
        E    == Replace(D, rest, D.val[square])
    IN  IF peer # square /\ len(D.val[peer]) = 2
        THEN IF \E p \in rest : len(E.val[p]) = 0 THEN False(E) ELSE E
        ELSE D

\* naked_twins: the body of `for peer in unit` for the k-th (unit, peer)
\* pair of a square of two candidates
twins_pair(D, square, k) ==
    LET unit == units[square][((k - 1) \div N) + 1]
        peer == unit[((k - 1) % N) + 1]
        rest == Range(unit) \ {square, peer}
        E    == Replace(D, rest, D.val[square])
    IN  IF peer # square /\ D.val[peer] = D.val[square]
        THEN IF \E p \in rest : len(E.val[p]) = 0 THEN False(E) ELSE E
        ELSE D

RECURSIVE twins_pairs(_, _, _, _)
twins_pairs(D, square, lo, hi) ==
    IF ~D.ok THEN D
    ELSE IF lo = hi THEN twins_pair(D, square, lo)
    ELSE twins_pairs(twins_pairs(D, square, lo, (lo + hi) \div 2), square,
                     ((lo + hi) \div 2) + 1, hi)

\* the body of the loop of naked_twins for the i-th square
twins_square(D, i) ==
    IF len(D.val[squares[i]]) = 2
    THEN twins_pairs(D, squares[i], 1, 3 * N)
    ELSE D

RECURSIVE twins_range(_, _, _)
twins_range(D, lo, hi) ==
    IF ~D.ok THEN D
    ELSE IF lo = hi THEN twins_square(D, lo)
    ELSE twins_range(twins_range(D, lo, (lo + hi) \div 2),
                     ((lo + hi) \div 2) + 1, hi)

naked_twins(D) == twins_range(D, 1, Len(squares))

\* only_choice scans (square, unit, digit) in this order; a position is the
\* number of the iteration: Pos(i, k, j) for the j-th digit in the k-th unit
\* of the i-th square.
Pos(i, k, j) == (i - 1) * 3 * N + (k - 1) * N + j

LastPos == Pos(Len(squares), 3, N)

PosSquare(p) == squares[((p - 1) \div (3 * N)) + 1]

PosUnit(p) == units[PosSquare(p)][(((p - 1) \div N) % 3) + 1]

PosDigit(p) == digits[((p - 1) % N) + 1]

dplaces(D, unit, digit) == {s \in Range(unit) : digit \in D.val[s]}

\* the iteration below without its first branch, `if len(dplaces) == 0`
ActsOnOnePlace(D, unit, digit) ==
    LET dp == dplaces(D, unit, digit)
    IN  len(dp) = 1 /\ IsNot(D, CHOOSE s \in dp : TRUE, digit)

\* the iteration for (unit, digit) returns False or calls assign
Acts(D, unit, digit) ==
    LET dp == dplaces(D, unit, digit)
    IN  \/ len(dp) = 0
        \/ len(dp) = 1 /\ IsNot(D, CHOOSE s \in dp : TRUE, digit)

\* The first iteration from p on that returns False or calls assign,
\* LastPos + 1 if none.  The iterations before it leave the dict alone, and
\* what an iteration does depends on its unit and digit only: H holds the
\* (square, unit, digit) iterations that act, by their numbers in the scan.
NextAct(D, p) ==
    LET H   == {x \in (DOMAIN squares) \X (1..3) \X (1..N) :
                   /\ squares[x[1]] = units[squares[x[1]]][x[2]][1]
                   /\ Acts(D, units[squares[x[1]]][x[2]], digits[x[3]])}
        act == UNION {{Pos(i, x[2], x[3]) :
                         i \in {i \in DOMAIN squares :
                                  units[squares[i]][x[2]] = units[squares[x[1]]][x[2]]}}
                      : x \in H}
        nxt == {q \in act : q >= p}
    IN  IF nxt = {} THEN LastPos + 1
        ELSE CHOOSE q \in nxt : \A x \in nxt : q <= x

\* reduce_puzzle and only_choice as values: the dict a call leaves, ok or
\* not, when it runs from the dict D to its return.  only_choice_from runs the
\* scan from position p on.
RECURSIVE reduce_puzzle(_), only_choice_from(_, _), only_choice_at(_, _)

only_choice_at(D, q) ==
    IF q > LastPos THEN D
    ELSE IF len(dplaces(D, PosUnit(q), PosDigit(q))) = 0 THEN False(D)
    ELSE only_choice_from(
             reduce_puzzle(Store(D, CHOOSE s \in dplaces(D, PosUnit(q), PosDigit(q)) : TRUE,
                                 PosDigit(q))),
             q + 1)

only_choice_from(D, p) == IF ~D.ok THEN D ELSE only_choice_at(D, NextAct(D, p))

twins_if_used(D) == IF D.ok /\ use_naked_twins THEN naked_twins(D) ELSE D

reduce_puzzle(D) == only_choice_from(twins_if_used(eliminate(D)), 1)

----------------------------------------------------------------------------
(* Inputs: two published puzzles, each as it is and with one character     *)
(* overwritten or inserted.                                                *)

TextOf(ns) == [i \in DOMAIN ns |-> IF ns[i] = 0 THEN "." ELSE digits[ns[i]]]

Easy ==
    TextOf(<<0,0,3,0,2,0,6,0,0, 9,0,0,3,0,5,0,0,1, 0,0,1,8,0,6,4,0,0,
             0,0,8,1,0,2,9,0,0, 7,0,0,0,0,0,0,0,8, 0,0,6,7,0,8,2,0,0,
             0,0,2,6,0,9,5,0,0, 8,0,0,2,0,3,0,0,9, 0,0,5,0,1,0,3,0,0>>)

Hard ==
    TextOf(<<4,0,0,0,0,0,8,0,5, 0,3,0,0,0,0,0,0,0, 0,0,0,7,0,0,0,0,0,
             0,2,0,0,0,0,0,6,0, 0,0,0,0,8,0,4,0,0, 0,0,0,0,1,0,0,0,0,
             0,0,0,6,0,3,0,7,0, 5,0,0,2,0,0,0,0,0, 1,0,4,0,0,0,0,0,0>>)

Bases == {Easy, Hard}

\* the places of a text that are edited: the first NumPos of EditAt
NumPos == 2

EditAt == <<5, 33, 1, 81, 41>>

OverChars == {".", " ", "1", "9"}

InsChars == {".", " "}

Overwrite(text, i, c) == [text EXCEPT ![i] = c]

Insert(text, i, c) == SubSeq(text, 1, i - 1) \o <<c>> \o SubSeq(text, i, Len(text))

Inputs ==
    Bases
    \cup {Overwrite(b, EditAt[k], c) : b \in Bases, k \in 1..NumPos, c \in OverChars}
    \cup {Insert(b, EditAt[k], c) : b \in Bases, k \in 1..NumPos, c \in InsChars}

----------------------------------------------------------------------------
(* solve                                                                   *)

\* [c for c in grid if c in self.digits or c in '0.']
chars(text) == SelectSeq(text, LAMBDA c : c \in Digits \/ c \in {"0", "."})

None == [kind |-> "none"]

Init ==
    /\ grid \in Inputs
    /\ use_naked_twins \in BOOLEAN
    /\ replaceCached \in BOOLEAN
    /\ units = InitUnits
    /\ peers = InitPeers
    /\ pc = "solve"
    /\ heap = <<>>
    /\ values = 0
    /\ clue = 0
    /\ ocstack = <<>>
    /\ ocpos = 0
    /\ frames = <<>>
    /\ result = None
    /\ op = "init"
    /\ round = 1
    /\ first = None

\* the dict the running call holds
Work == heap[values]

\* the running call has changed its dict in place to D
Save(D) == [heap EXCEPT ![values] = D]

config == <<use_naked_twins, replaceCached, units, peers, round, first>>

\* grid_values, and the first statement of parse_grid
GridValues ==
    /\ pc = "solve"
    /\ IF Len(chars(grid)) = Len(squares)
       THEN /\ heap' = <<Dict([s \in Range(squares) |-> Digits], {})>>
            /\ values' = 1
            /\ clue' = 1
            /\ pc' = "parse_grid"
            /\ UNCHANGED result
       ELSE /\ pc' = "raised"
            /\ result' = [kind |-> "AssertionError"]
            /\ UNCHANGED <<heap, values, clue>>
    /\ op' = "grid_values"
    /\ UNCHANGED <<grid, config, ocstack, ocpos, frames>>

\* one iteration of the loop of parse_grid; after the last, parse_grid
\* returns values and solve hands it to search
ParseGrid ==
    /\ pc = "parse_grid"
    /\ IF clue > Len(squares)
       THEN /\ pc' = "search"
            /\ UNCHANGED <<heap, clue>>
       ELSE IF chars(grid)[clue] \in Digits
            THEN /\ heap' = Save(Store(Work, squares[clue], chars(grid)[clue]))
                 /\ pc' = "eliminate"
                 /\ UNCHANGED clue
            ELSE /\ clue' = clue + 1
                 /\ UNCHANGED <<heap, pc>>
    /\ op' = "parse_grid"
    /\ UNCHANGED <<grid, config, values, ocstack, ocpos, frames, result>>

\* reduce_puzzle: eliminate
Eliminate ==
    /\ pc = "eliminate"
    /\ \E D \in {eliminate(Work)} :
           /\ heap' = Save(D)
           /\ pc' = IF ~D.ok THEN "failed"
                    ELSE IF use_naked_twins THEN "naked_twins" ELSE "only_choice"
    /\ ocpos' = 1
    /\ op' = "eliminate"
    /\ UNCHANGED <<grid, config, values, clue, ocstack, frames, result>>

\* reduce_puzzle: naked_twins
NakedTwins ==
    /\ pc = "naked_twins"
    /\ \E D \in {naked_twins(Work)} :
           /\ heap' = Save(D)
           /\ pc' = IF D.ok THEN "only_choice" ELSE "failed"
    /\ op' = "naked_twins"
    /\ UNCHANGED <<grid, config, values, clue, ocstack, ocpos, frames, result>>

\* only_choice, from position ocpos up to the iteration that returns False or
\* calls assign, or to the end of the scan
OnlyChoice ==
    /\ pc = "only_choice"
    /\ \E q \in {NextAct(Work, ocpos)} :
         IF q > LastPos
         THEN /\ pc' = "assigned"
              /\ UNCHANGED <<heap, ocstack, ocpos>>
         ELSE \E dp \in {dplaces(Work, PosUnit(q), PosDigit(q))} :
                IF len(dp) = 0
                THEN /\ heap' = Save(False(Work))
                     /\ pc' = "failed"
                     /\ UNCHANGED <<ocstack, ocpos>>
                ELSE /\ heap' = Save(Store(Work, CHOOSE s \in dp : TRUE, PosDigit(q)))
                     /\ ocstack' = Append(ocstack, q)
                     /\ pc' = "eliminate"
                     /\ UNCHANGED ocpos
    /\ op' = "only_choice"
    /\ UNCHANGED <<grid, config, values, clue, frames, result>>

\* assign returns values: to the only_choice that called it, to parse_grid,
\* or to the generator of search, which calls search on it
AssignReturns ==
    /\ pc = "assigned"
    /\ IF ocstack # <<>>
       THEN /\ ocpos' = ocstack[Len(ocstack)] + 1
            /\ ocstack' = SubSeq(ocstack, 1, Len(ocstack) - 1)
            /\ pc' = "only_choice"
            /\ UNCHANGED clue
       ELSE /\ IF clue <= Len(squares)
               THEN clue' = clue + 1 /\ pc' = "parse_grid"
               ELSE pc' = "search" /\ UNCHANGED clue
            /\ UNCHANGED <<ocstack, ocpos>>
    /\ op' = "assign"
    /\ UNCHANGED <<grid, config, heap, values, frames, result>>

\* False goes up through every only_choice and assign of the chain; then
\* parse_grid returns False and search(False) returns it to solve, or
\* search(False) returns it to _some, and the copy is dropped
AssignFails ==
    /\ pc = "failed"
    /\ ocstack' = <<>>
    /\ IF clue <= Len(squares)
       THEN /\ result' = [kind |-> "False"]
            /\ pc' = "done"
            /\ UNCHANGED <<heap, values>>
       ELSE /\ heap' = SubSeq(heap, 1, frames[Len(frames)].values)
            /\ values' = frames[Len(frames)].values
            /\ pc' = "some"
            /\ UNCHANGED result
    /\ op' = "assign"
    /\ UNCHANGED <<grid, config, clue, ocpos, frames>>

\* any() where line 167 has all()
AnyOne(D) == \E i \in DOMAIN squares : len(D.val[squares[i]]) = 1

\* all(len(values[s]) == 1 for s in self.squares)
AllOne(D) == \A i \in DOMAIN squares : len(D.val[squares[i]]) = 1

\* the comparison of line 170 off by one
UnfilledOverTwo(D) == {s \in Range(squares) : len(D.val[s]) > 2}

\* s for s in self.squares if len(values[s]) > 1
Unfilled(D) == {s \in Range(squares) : len(D.val[s]) > 1}

\* the minimum below with ties going to the last square instead of the first
MinSquareLast(D) ==
    CHOOSE s \in Unfilled(D) :
        \A t \in Unfilled(D) :
            \/ len(D.val[s]) < len(D.val[t])
            \/ len(D.val[s]) = len(D.val[t]) /\ s >= t

\* the minimum below without `if len(values[s]) > 1`, over all the squares
MinSquareAny(D) ==
    CHOOSE s \in Range(squares) :
        \A t \in Range(squares) :
            \/ len(D.val[s]) < len(D.val[t])
            \/ len(D.val[s]) = len(D.val[t]) /\ s <= t

\* min((len(values[s]), s) for s in self.squares if len(values[s]) > 1)
MinSquare(D) ==
    CHOOSE s \in Unfilled(D) :
        \A t \in Unfilled(D) :
            \/ len(D.val[s]) < len(D.val[t])
            \/ len(D.val[s]) = len(D.val[t]) /\ s <= t

\* the generator of line 171 giving up after its first element
TodoFirst(D, s) == SubSeq(SelectSeq(digits, LAMBDA d : d \in D.val[s]), 1, 1)

\* the digits of values[s] from the last to the first
TodoDescending(D, s) ==
    LET up == SelectSeq(digits, LAMBDA d : d \in D.val[s])
    IN  [i \in 1..Len(up) |-> up[Len(up) + 1 - i]]

\* for d in values[s]
Todo(D, s) == SelectSeq(digits, LAMBDA d : d \in D.val[s])

\* search(values) on a dict: lines 167-171 up to the call of _some
Search ==
    /\ pc = "search"
    /\ IF AllOne(Work)
       THEN /\ result' = [kind |-> "values", val |-> Work.val]
            /\ pc' = "done"
            /\ frames' = <<>>
       ELSE IF Unfilled(Work) = {}
            THEN /\ result' = [kind |-> "ValueError"]
                 /\ pc' = "raised"
                 /\ UNCHANGED frames
            ELSE /\ \E s \in {MinSquare(Work)} :
                      frames' = Append(frames,
                          [values |-> values, s |-> s, todo |-> Todo(Work, s)])
                 /\ pc' = "some"
                 /\ UNCHANGED result
    /\ op' = "search"
    /\ UNCHANGED <<grid, config, heap, values, clue, ocstack, ocpos>>

\* values where line 171 has values.copy(): the same dict object
alias(h, ref) == [heap |-> h, ref |-> ref]

\* values.copy(): a new dict object holding the same string objects
copy(h, ref) == [heap |-> Append(h, h[ref]), ref |-> Len(h) + 1]

\* _some asks the generator for its next element, assign(values.copy(), s, d)
\* for the next d; at the end of the sequence _some returns False and the
\* frame's dict is dropped
Some ==
    /\ pc = "some"
    /\ LET f == frames[Len(frames)]
       IN  IF f.todo # <<>>
           THEN /\ \E c \in {copy(heap, f.values)} :
                     /\ heap' = [c.heap EXCEPT ![c.ref] = Store(@, f.s, Head(f.todo))]
                     /\ values' = c.ref
                /\ frames' = [frames EXCEPT ![Len(frames)].todo = Tail(@)]
                /\ pc' = "eliminate"
                /\ UNCHANGED result
           ELSE /\ frames' = SubSeq(frames, 1, Len(frames) - 1)
                /\ IF Len(frames) = 1
                   THEN /\ result' = [kind |-> "False"]
                        /\ pc' = "done"
                        /\ UNCHANGED <<heap, values>>
                   ELSE /\ heap' = SubSeq(heap, 1, frames[Len(frames) - 1].values)
                        /\ values' = frames[Len(frames) - 1].values
                        /\ UNCHANGED <<result, pc>>
    /\ op' = "some"
    /\ UNCHANGED <<grid, config, clue, ocstack, ocpos>>

Next ==
    \/ GridValues
    \/ ParseGrid
    \/ Eliminate
    \/ NakedTwins
    \/ OnlyChoice
    \/ AssignReturns
    \/ AssignFails
    \/ Search
    \/ Some

Spec == Init /\ [][Next]_vars

\* solve has neither returned nor raised: the guard of every action is its
\* own value of pc, so this is when a step of Next can be taken
Running == pc \notin {"done", "raised"}

\* solve runs on one thread that is not suspended for good: while a statement
\* is at hand it is executed in the end (weak fairness of Next, its
\* enabling condition written as Running)
SpecLive == Spec /\ ([]<>(~Running) \/ []<><<Next>>_vars)

----------------------------------------------------------------------------
(* display, and a returned grid given back to solve as the text display    *)
(* prints for it                                                           *)

RECURSIVE Concat(_)
Concat(ss) == IF ss = <<>> THEN <<>> ELSE Head(ss) \o Concat(Tail(ss))

Spaces(n) == [i \in 1..n |-> " "]

\* values[s].center(width): the odd blank goes to the right of the string
\* unless the padding and the width are both odd
center(str, width) ==
    LET pad  == width - len(str)
        left == (pad \div 2) + (IF pad % 2 = 1 /\ width % 2 = 1 THEN 1 ELSE 0)
    IN  Spaces(left) \o SelectSeq(digits, LAMBDA d : d \in str) \o Spaces(pad - left)

\* 1 + max(len(values[s]) for s in self.squares)
width(val) ==
    1 + (CHOOSE n \in 0..N : /\ \E s \in Range(squares) : len(val[s]) = n
                              /\ \A t \in Range(squares) : len(val[t]) <= n)

\* '+'.join(['-' * (width * 3)] * 3)
line(val) ==
    LET dashes == [i \in 1..(width(val) * 3) |-> "-"]
    IN  dashes \o <<"+">> \o dashes \o <<"+">> \o dashes

\* the text of the row printed for r, read down the column instead
col_text(val, r) ==
    Concat([c \in 1..N |->
        center(val[(cols[c] - 1) * N + rows[r]], width(val))
            \o (IF cols[c] \in {3, 6} THEN <<"|">> ELSE <<>>)])

\* ''.join(values[r + c].center(width) + ('|' if c in '36' else '') ...)
row_text(val, r) ==
    Concat([c \in 1..N |->
        center(val[(rows[r] - 1) * N + cols[c]], width(val))
            \o (IF cols[c] \in {3, 6} THEN <<"|">> ELSE <<>>)])

\* everything display prints, print's line ends included
display(val) ==
    Concat([r \in 1..N |->
        row_text(val, r) \o <<"\n">>
            \o (IF rows[r] \in {3, 6} THEN line(val) \o <<"\n">> ELSE <<>>)])
    \o <<"\n">>

\* solve has returned a grid: the caller has it displayed and calls solve on
\* the text
Resolve ==
    /\ pc = "done"
    /\ round = 1
    /\ result.kind = "values"
    /\ grid' = display(result.val)
    /\ first' = result
    /\ round' = 2
    /\ pc' = "solve"
    /\ heap' = <<>>
    /\ values' = 0
    /\ clue' = 0
    /\ ocstack' = <<>>
    /\ ocpos' = 0
    /\ frames' = <<>>
    /\ result' = None
    /\ op' = "display"
    /\ UNCHANGED <<use_naked_twins, replaceCached, units, peers>>

NextTwice ==
    \/ Next
    \/ Resolve

SpecTwice == Init /\ [][NextTwice]_vars

----------------------------------------------------------------------------
(* The Sudoku board and the published solutions, stated apart from the     *)
(* tables the solver builds.                                               *)

Cells == 1..81

RowOf(s) == ((s - 1) \div 9) + 1

ColOf(s) == ((s - 1) % 9) + 1

BoxOf(s) == ((RowOf(s) - 1) \div 3) * 3 + ((ColOf(s) - 1) \div 3) + 1

Houses ==
    {{s \in Cells : RowOf(s) = k} : k \in 1..9}
    \cup {{s \in Cells : ColOf(s) = k} : k \in 1..9}
    \cup {{s \in Cells : BoxOf(s) = k} : k \in 1..9}

Blank == {"0", "."}

\* the characters of a text that stand for squares, in order
GridChars(text) ==
    SelectSeq(text, LAMBDA c : c \in Blank \cup {"1", "2", "3", "4", "5", "6", "7", "8", "9"})

WellFormed(text) == Len(GridChars(text)) = 81

\* a grid of 81 sets is solved: singletons, pairwise distinct in every house
IsSolved(val) ==
    /\ DOMAIN val = Cells
    /\ \A s \in Cells : Cardinality(val[s]) = 1
    /\ \A h \in Houses : \A s, u \in h : s # u => val[s] # val[u]

EasySolved ==
    TextOf(<<4,8,3,9,2,1,6,5,7, 9,6,7,3,4,5,8,2,1, 2,5,1,8,7,6,4,9,3,
             5,4,8,1,3,2,9,7,6, 7,2,9,5,6,4,1,3,8, 1,3,6,7,9,8,2,4,5,
             3,7,2,6,8,9,5,1,4, 8,1,4,2,5,3,7,6,9, 6,9,5,4,1,7,3,8,2>>)

HardSolved ==
    TextOf(<<4,1,7,3,6,9,8,2,5, 6,3,2,1,5,8,9,4,7, 9,5,8,7,2,4,3,1,6,
             8,2,5,4,3,7,1,6,9, 7,9,1,5,8,6,4,3,2, 3,4,6,9,1,2,7,5,8,
             2,8,9,6,4,3,5,7,1, 5,7,3,2,9,1,6,8,4, 1,6,4,8,7,5,2,9,3>>)

\* every clue of the text is the digit the solved grid has there
Agrees(text, solved) ==
    /\ WellFormed(text)
    /\ \A i \in Cells : GridChars(text)[i] \in Blank \/ GridChars(text)[i] = solved[i]

\* the text gives every clue of the puzzle
Gives(text, puzzle) ==
    /\ WellFormed(text)
    /\ \A i \in Cells : puzzle[i] \in Blank \/ GridChars(text)[i] = puzzle[i]

AsGrid(solved) == [s \in Cells |-> {solved[s]}]

\* Easy and Hard have one completion each, so a text that gives all the
\* clues of one of them and agrees with its completion has that completion
\* and no other
TheCompletion(text) ==
    IF Gives(text, Easy) /\ Agrees(text, EasySolved) THEN {AsGrid(EasySolved)}
    ELSE IF Gives(text, Hard) /\ Agrees(text, HardSolved) THEN {AsGrid(HardSolved)}
    ELSE {}

Returned == pc = "done" /\ result.kind = "values"

----------------------------------------------------------------------------
(* Claims                                                                  *)

\* C1: every grid solve returns, with naked twins or without, is solved:
\* one candidate in each of the 81 squares, and the 9 values of each of the
\* 27 units pairwise distinct.
C1_ReturnedGridIsSolved == result.kind = "values" => IsSolved(result.val)

\* a grid returned from a search branch
C1_Witness == Returned /\ Len(heap) > 1 /\ IsSolved(result.val)

\* C2: on a grid with exactly one completion, solve with naked twins and
\* solve without both return that completion.
C2_TwinsOrNotSameCompletion ==
    (pc \in {"done", "raised"} /\ round = 1) =>
        \A sol \in TheCompletion(grid) : result = [kind |-> "values", val |-> sol]

\* Hard solved with naked twins switched on
C2_Witness ==
    /\ Returned /\ use_naked_twins /\ Gives(grid, Hard)
    /\ result.val = AsGrid(HardSolved)

\* C3: solve returns not-found only when the puzzle has no solution: on a
\* well-formed grid that some solved grid agrees with, it returns a grid.
C3_SolvableIsSolved ==
    (pc \in {"done", "raised"} /\ round = 1
        /\ \E solved \in {EasySolved, HardSolved} : Agrees(grid, solved))
    => result.kind = "values"

\* a puzzle with a clue of Easy taken away, solved by search
C3_Witness ==
    /\ Returned /\ Agrees(grid, EasySolved) /\ ~Gives(grid, Easy)
    /\ Len(heap) > 1

\* the other cells of the row, the column and the box of a cell
Mates ==
    [s \in Cells |->
        {u \in Cells : /\ u # s
                        /\ \/ RowOf(s) = RowOf(u)
                           \/ ColOf(s) = ColOf(u)
                           \/ BoxOf(s) = BoxOf(u)}]

\* two clues of one row, column or box give the same digit
DupClue(text) ==
    \E cs \in {GridChars(text)} :
        /\ Len(cs) = 81
        /\ \E s \in Cells :
               /\ cs[s] \notin Blank
               /\ \E u \in Mates[s] : cs[s] = cs[u]

\* what solve returns when search has tried every branch: the False of _some
NoSolution == [kind |-> "False"]

Finished == pc \in {"done", "raised"}

\* C4: a text that does not hold exactly 81 relevant characters makes solve
\* return the MalformedGrid outcome; it never aborts with an exception or a
\* failed assertion.
C4_MalformedIsReturnedNotRaised ==
    ~WellFormed(grid) =>
        /\ pc # "raised"
        /\ pc = "done" => result = [kind |-> "MalformedGrid"]

\* C5: on a grid whose clues contradict each other solve yields the
\* ParseContradiction outcome, a result other than the NoSolution outcome.
C5_ContradictionIsNotNoSolution ==
    (pc = "done" /\ round = 1 /\ DupClue(grid)) => result # NoSolution

\* C6: solve is idempotent on its output: the text of a returned grid, parsed
\* and searched, gives a grid equal to it cell for cell.
C6_SolveTwiceSameGrid ==
    (Finished /\ round = 2) => result = first

\* the displayed grid has been solved again
C6_Witness ==
    /\ pc = "done" /\ round = 2 /\ result = first
    /\ result.kind = "values" /\ Len(grid) > 81

\* C7: a speculative branch never modifies its parent's grid: as long as a
\* search node is open, no step of its children changes the node's own dict,
\* so every sibling starts from the same parent grid.
C7_ParentGridUntouched ==
    [][\A i \in 1..Len(frames) :
           i <= Len(frames') =>
               /\ frames'[i].values = frames[i].values
               /\ heap'[frames'[i].values] = heap[frames[i].values]]_vars

\* a second sibling starts after the first child's subtree has failed, from
\* the parent's grid with the next digit stored
C7_Witness ==
    /\ pc = "eliminate" /\ op = "some" /\ frames # <<>>
    /\ \E f \in {frames[Len(frames)]} :
           /\ Len(Todo(heap[f.values], f.s)) >= Len(f.todo) + 2
           /\ \E d \in heap[f.values].val[f.s] :
                  Work.val = [heap[f.values].val EXCEPT ![f.s] = {d}]

\* C8: the core never crashes: a well-formed grid never makes solve raise,
\* and whenever search holds a grid that is not all singletons some square
\* has two or more candidates, so the minimum of line 170 is defined.
C8_SearchAlwaysHasASquare ==
    /\ WellFormed(grid) => pc # "raised"
    /\ result.kind # "ValueError"
    /\ (pc = "search" /\ \E s \in Cells : Cardinality(Work.val[s]) # 1)
           => \E s \in Cells : Cardinality(Work.val[s]) >= 2

\* search, two levels down, has chosen a square of two or more candidates
C8_Witness ==
    /\ pc = "some" /\ op = "search" /\ Len(frames) >= 2
    /\ Cardinality(Work.val[frames[Len(frames)].s]) >= 2

\* the units of the tables, each a list of squares
UnitsOf == UNION {Range(units[s]) : s \in DOMAIN units}

\* C9: the topology built at construction: 27 units of 9 distinct cells
\* each; every cell in exactly 3 units, its row, its column and its box;
\* every cell with exactly 20 peers, itself not among them; the peer relation
\* symmetric; and no operation of solve changes the tables.
C9_TopologyHoldsThroughout ==
    /\ DOMAIN units = Cells
    /\ DOMAIN peers = Cells
    /\ Cardinality(UnitsOf) = 27
    /\ \A u \in UnitsOf : Len(u) = 9 /\ Cardinality(Range(u)) = 9
    /\ \A s \in Cells :
           /\ Len(units[s]) = 3
           /\ {Range(units[s][k]) : k \in 1..3} = {h \in Houses : s \in h}
           /\ Cardinality({Range(units[s][k]) : k \in 1..3}) = 3
           /\ Cardinality(peers[s]) = 20
           /\ s \notin peers[s]
           /\ \A p \in peers[s] : s \in peers[p]
    /\ units = InitUnits
    /\ peers = InitPeers

\* the tables after a whole search that found no grid
C9_Witness ==
    /\ pc = "done" /\ op = "some" /\ result = NoSolution
    /\ Cardinality(UnitsOf) = 27
    /\ \A s \in Cells : Cardinality(peers[s]) = 20

\* C10: when eliminate returns success, the digit of every square of one
\* candidate, the squares that came down to one candidate during the pass
\* included, is absent from every peer of the square.
C10_EliminateReachesFixedPoint ==
    (op = "eliminate" /\ Work.ok) =>
        \A s \in Cells :
            Cardinality(Work.val[s]) = 1 =>
                \A p \in peers[s] : Work.val[s] \cap Work.val[p] = {}

\* C11: eliminate never returns success on a grid in which some cell has no
\* candidate left, wherever the emptied cell stands in the traversal order.
C11_EliminateSeesEveryEmptyCell ==
    (op = "eliminate" /\ Work.ok) => \A s \in Cells : Work.val[s] # {}

\* C12: after a successful assign the grid is at a propagation fixed point:
\* reduce run again on the returned grid succeeds and leaves every cell's
\* candidate set as it is.
C12_ReduceAgainChangesNothing ==
    pc = "assigned" =>
        /\ reduce_puzzle(Work).ok
        /\ reduce_puzzle(Work).val = Work.val

\* C13: when only_choice returns success every digit is a candidate of at
\* least one cell of every unit, and a digit that is a candidate of exactly
\* one cell of a unit is the only candidate of that cell; when only_choice
\* itself returns Contradiction some digit has no cell left in some unit.
C13_OnlyChoiceLeavesNoHiddenSingle ==
    /\ (op = "only_choice" /\ pc = "assigned") =>
           \A h \in Houses : \A d \in Range(digits) :
               /\ \E s \in h : d \in Work.val[s]
               /\ \A s \in h :
                      {u \in h : d \in Work.val[u]} = {s} => Work.val[s] = {d}
    /\ (op = "only_choice" /\ pc = "failed") =>
           \E h \in Houses : \E d \in Range(digits) :
               \A s \in h : d \notin Work.val[s]

\* the only_choice of a search branch has returned success after an assign
\* it called in the middle of its scan had changed the grid
C13_Witness ==
    /\ op = "only_choice" /\ pc = "assigned" /\ ocstack = <<>> /\ ocpos > 1
    /\ clue > Len(squares)
    /\ \E s \in Cells : Cardinality(Work.val[s]) > 1

\* C14: candidate sets only shrink: whatever a step of parse_grid or search
\* does to a dict, each cell's candidates after the step are among its
\* candidates before, and the dict of a new search branch starts from
\* candidates of its parent's.
C14_CandidatesOnlyShrink ==
    [][/\ (values # 0 /\ values' = values /\ Len(heap') >= values) =>
              \A s \in Cells : heap'[values].val[s] \subseteq heap[values].val[s]
       /\ (pc = "some" /\ pc' = "eliminate") =>
              \A s \in Cells : heap'[values'].val[s] \subseteq heap[values].val[s]]_vars

\* C15: when the clues put one digit in two cells of a unit, parse_grid fails
\* while it assigns the clues: solve returns no grid, and search never
\* expands a node.
C15_DuplicateClueFailsInParsing ==
    DupClue(grid) =>
        /\ pc \notin {"search", "some", "raised"}
        /\ frames = <<>>
        /\ Len(heap) <= 1
        /\ pc = "done" => (result = [kind |-> "False"] /\ clue <= Len(squares))

\* parse_grid has failed at the second of two equal clues of a unit, the
\* first of which is still in its cell
C15_Witness ==
    /\ pc = "done" /\ DupClue(grid) /\ result.kind = "False"
    /\ clue \in 2..Len(squares)
    /\ \E s \in 1..(clue - 1) :
           /\ s \in peers[clue]
           /\ GridChars(grid)[s] = GridChars(grid)[clue]
           /\ Work.val[s] = {GridChars(grid)[s]}

\* C16: the cell an open search node branches on has more than one
\* candidate, no cell of more than one candidate has fewer, and no such cell
\* of as many candidates comes before it in row-major order; the node gets
\* one child per candidate digit of the cell.
C16_BranchCellIsFirstSmallest ==
    (op = "search" /\ pc = "some") =>
        \E f \in {frames[Len(frames)]} :
            /\ f.values = values
            /\ Cardinality(Work.val[f.s]) > 1
            /\ \A t \in Cells :
                   Cardinality(Work.val[t]) > 1 =>
                       \/ Cardinality(Work.val[f.s]) < Cardinality(Work.val[t])
                       \/ /\ Cardinality(Work.val[f.s]) = Cardinality(Work.val[t])
                          /\ f.s <= t
            /\ Len(f.todo) = Cardinality(Work.val[f.s])
            /\ {f.todo[i] : i \in 1..Len(f.todo)} = Work.val[f.s]

\* a node whose cell ties with a later cell and has fewer candidates than an
\* earlier one
C16_Witness ==
    /\ op = "search" /\ pc = "some"
    /\ \E f \in {frames[Len(frames)]} :
           /\ \E t \in Cells : t > f.s /\ Cardinality(Work.val[t]) = Cardinality(Work.val[f.s])
           /\ \E t \in Cells : t < f.s /\ Cardinality(Work.val[t]) > Cardinality(Work.val[f.s])

\* the place of a digit character in '123456789'
DigitNo(d) == CHOOSE i \in 1..9 : <<"1", "2", "3", "4", "5", "6", "7", "8", "9">>[i] = d

\* C17: the children of an open node are tried one at a time in ascending
\* digit order, each to the end of its subtree before the next; search returns
\* the grid of the first child that reaches Solved and nothing runs after
\* that; a node returns not-found only when every child has been tried.
C17_ChildrenInDigitOrderFirstSolvedWins ==
    [][/\ pc \notin {"done", "raised"}
       /\ (pc = "some" /\ pc' = "eliminate") =>
              \E f \in {frames[Len(frames)]} : \E d \in heap[f.values].val[f.s] :
                  /\ Len(frames') = Len(frames)
                  /\ values' = Len(heap) + 1
                  /\ f.values = Len(heap)
                  /\ heap'[values'].val = [heap[f.values].val EXCEPT ![f.s] = {d}]
                  /\ \E rest \in {frames'[Len(frames)].todo} :
                         /\ {rest[i] : i \in 1..Len(rest)}
                                = {e \in heap[f.values].val[f.s] : DigitNo(e) > DigitNo(d)}
                         /\ \A i \in 1..(Len(rest) - 1) :
                                DigitNo(rest[i]) < DigitNo(rest[i + 1])
       /\ (pc = "some" /\ pc' # "eliminate") =>
              /\ frames[Len(frames)].todo = <<>>
              /\ Len(frames') = Len(frames) - 1
              /\ (pc' = "done") = (frames' = <<>>)
              /\ pc' = "done" => result' = [kind |-> "False"]
       /\ (pc = "search" /\ pc' = "done") =>
              /\ result' = [kind |-> "values", val |-> heap[values].val]
              /\ \A s \in Cells : Cardinality(heap[values].val[s]) = 1
       /\ (pc = "search" /\ pc' = "some") =>
              /\ Len(frames') = Len(frames) + 1
              /\ frames'[Len(frames')].values = values]_vars

\* solve has returned the grid of a child while a later digit of the cell
\* its parent branched on was never tried
C17_Witness ==
    /\ Returned
    /\ \E r \in 1..(values - 1) :
           \E s \in {MinSquare(heap[r])} :
               \E e \in heap[r].val[s] :
                   \A d \in result.val[s] : DigitNo(e) > DigitNo(d)

\* C18: solve terminates on every input: it comes to its return (or, on a
\* malformed text, to the assertion of grid_values); the grid a branch of
\* the search hands to search has fewer unresolved cells than its parent's,
\* so that the search is never deeper than the cells of the grid, and the
\* chain of assigns inside only_choice is bounded as well.
C18_SolveTerminates ==
    /\ <>Finished
    /\ [](/\ (pc = "search" /\ frames # <<>>) =>
                Cardinality({s \in Cells : Cardinality(Work.val[s]) > 1})
                    < Cardinality({s \in Cells :
                          Cardinality(heap[frames[Len(frames)].values].val[s]) > 1})
          /\ Len(frames) < 81
          /\ Len(ocstack) <= 2 * 81)

\* solve has returned from a search four levels deep
C18_Witness ==
    /\ Finished /\ WellFormed(grid) /\ op = "search" /\ Len(heap) >= 5

\* a second completion of the Easy grid without its clue of D6
EasyOtherSolved ==
    TextOf(<<4,8,3,9,2,1,6,5,7, 9,6,7,3,4,5,8,2,1, 2,5,1,8,7,6,4,9,3,
             5,2,8,1,3,4,9,7,6, 7,3,9,5,6,2,1,4,8, 1,4,6,7,9,8,2,3,5,
             3,7,2,6,8,9,5,1,4, 8,1,4,2,5,3,7,6,9, 6,9,5,4,1,7,3,8,2>>)

KnownSolved == {EasySolved, HardSolved, EasyOtherSolved}

\* the solved grid picks the value of every cell among the cell's candidates
Fits(solved, D) == \A s \in Cells : solved[s] \in D.val[s]

\* C19: propagation is sound: when a complete valid grid picks every cell's
\* value among the candidates of the grid at hand, a step of eliminate,
\* naked_twins or only_choice keeps its digit in every cell, and reduce does
\* not return Contradiction, with naked twins or without.
C19_PropagationKeepsSolutions ==
    [][\A solved \in KnownSolved :
           (pc \in {"eliminate", "naked_twins", "only_choice"} /\ Fits(solved, heap[values]))
               => /\ pc' # "failed"
                  /\ heap'[values'].ok
                  /\ Fits(solved, heap'[values'])]_vars

\* naked_twins has run in a branch of the search, two levels down, on a grid
\* that holds a completion, and only_choice has the grid next
C19_Witness ==
    /\ op = "naked_twins" /\ pc = "only_choice" /\ Len(frames) >= 2
    /\ \E solved \in KnownSolved : IsSolved(AsGrid(solved)) /\ Fits(solved, Work)

\* C20: a grid solve returns agrees with the input: a cell whose character
\* in the input is a digit holds exactly that digit.
C20_ReturnedGridKeepsClues ==
    Returned =>
        \E cs \in {GridChars(grid)} :
            \A i \in Cells : cs[i] \notin Blank => result.val[i] = {cs[i]}

\* a grid returned for a puzzle of several completions, other than the
\* published ones, with the clues in their cells
C20_Witness ==
    /\ Returned /\ round = 1
    /\ result.val \notin {AsGrid(EasySolved), AsGrid(HardSolved)}
    /\ \E i \in Cells : GridChars(grid)[i] \notin Blank /\ result.val[i] = {GridChars(grid)[i]}

====
